---- MODULE Spec2Model ----
(***************************************************************************)
(* The sktm "watcher" (src/sktm/__init__.py): the ingestion -> filter ->   *)
(* submit -> reconcile control loop.  The watcher's own code is modelled   *)
(* line by line; its collaborators (the store sktm.db, the CI backend      *)
(* sktm.jenkins, the tracker client sktm.patchwork) are not part of the    *)
(* source tree and are modelled from their interface description.          *)
(***************************************************************************)
EXTENDS Integers, Sequences, FiniteSets, TLC

(* ------------------------------ bounds --------------------------------- *)
MaxSeries == 2
NumProj == 1
MaxBuilds == 2
MaxTicks == 2
MaxCommits == 1
MaxBad == 1
MaxDrain == 3
CursorStart == 100

(* ------------------------- program constants --------------------------- *)
\* (mutant: the expiry window is six hours)
ExpirySecsShort == 6 * 3600

\* the age handed to get_expired_pending_patches
ExpirySecs == 43200

\* the clock advances in steps of six hours
TickSecs == 6 * 3600

None == 0
NoTime == -1
NoBaseline == [commit_hash |-> 0, commit_date |-> 0, result |-> "NONE", build_id |-> 0]

Projects == 1..NumProj
SeriesIds == 1..MaxSeries
Commits == 1..MaxCommits
ExitCodes == {0, 1, 2, 126, 127, -9}
Results == {"SUCCESS", "FAILURE", "ERROR"}

(* ------------------------ the tracker's content ------------------------ *)
\* Series k of the tracker: series 1 has two patches, the others one;
\* patch ids grow with k.  With CursorStart = 100: {101,102} and {103}.
\* The series before the last belong to project 1, the last to the last project.
ProjOf(k) == IF k < MaxSeries THEN 1 ELSE NumProj
FirstPatch(k) == CursorStart + 2 * k - 1
PatchIdsOf(k) == IF k = 1 THEN <<FirstPatch(k), FirstPatch(k) + 1>>
                 ELSE <<FirstPatch(k)>>
LastPatch(k) == PatchIdsOf(k)[Len(PatchIdsOf(k))]
AllPatchIds == UNION {{PatchIdsOf(k)[n] : n \in DOMAIN PatchIdsOf(k)} : k \in SeriesIds}
SeriesOfPatch(id) == CHOOSE k \in SeriesIds : \E n \in DOMAIN PatchIdsOf(k) : PatchIdsOf(k)[n] = id
PatchSet(k) == {PatchIdsOf(k)[n] : n \in DOMAIN PatchIdsOf(k)}

\* A URL is the sequence of its path segments; a segment is a word or a number.
Word(s) == [w |-> s, n |-> -1]
Num(i) == [w |-> "", n |-> i]
BaseUrl(p) == <<Word("pw"), Num(p)>>

VARIABLES
    pj,            \* self.pj: list of (job type, build id, tracker interface)
    pw,            \* self.pw: list of tracker interfaces, each with its cursor
    patch_filter,  \* self.patch_filter: TRUE when a filter program is configured
    waiting,       \* TRUE while wait_for_pending sleeps between two passes
    db_stable,     \* store: the stable baseline commit, None if there is none
    db_baseline,   \* store: the Baseline record, None before the first update
    db_series,     \* store: the batches committed by commit_series
    db_tested,     \* store: the batches committed by commit_tested
    db_pending,    \* store: patch id -> time of its pending mark, NoTime if unmarked
    builds,        \* CI backend: build id -> the build and its state
    posted,        \* tracker: the series posted so far, each with its URL shape
    now,           \* the clock, in seconds
    op,            \* the last operation called
    err,           \* the exception the last operation raised, "none" if it returned
    trace,         \* the calls the last operation made, in order
    observed,      \* history: build ids whose completion check_pending observed
    reconciled,    \* history: for each batch of db_tested, the job it was written for
    awaiting       \* history: series submitted and not committed as tested since

vars == <<pj, pw, patch_filter, waiting, db_stable, db_baseline, db_series,
          db_tested, db_pending, builds, posted, now, op, err, trace,
          observed, reconciled, awaiting>>

store == <<db_stable, db_baseline, db_series, db_tested, db_pending>>

(* --------------------------- sequence helpers -------------------------- *)
Range(s) == {s[i] : i \in DOMAIN s}

RECURSIVE SeqOfSet(_)
\* the elements of a set of integers as an increasing sequence
SeqOfSet(S) ==
    IF S = {} THEN <<>>
    ELSE LET m == CHOOSE x \in S : \A y \in S : x <= y
         IN <<m>> \o SeqOfSet(S \ {m})

SetMax(S) == CHOOSE x \in S : \A y \in S : y <= x

\* list.remove(x): the list without the first element equal to x
ListRemove(list, x) ==
    IF \E i \in DOMAIN list : list[i] = x
    THEN LET i == CHOOSE j \in DOMAIN list : list[j] = x /\ \A n \in 1..(j - 1) : list[n] # x
         IN SubSeq(list, 1, i - 1) \o SubSeq(list, i + 1, Len(list))
    ELSE list

(* ---------------------- the state a handler works on ------------------- *)
\* The state a handler reads and writes, threaded through its statements.
Snapshot ==
    [pj |-> pj, pw |-> pw, stable |-> db_stable, baseline |-> db_baseline,
     series |-> db_series, tested |-> db_tested, pending |-> db_pending,
     builds |-> builds, err |-> "none", trace |-> <<>>,
     observed |-> observed, reconciled |-> reconciled, awaiting |-> awaiting,
     refuse |-> 0]

\* One call or log line of a handler: what it is, and the build, series,
\* tracker interface, number and text it is about (0 and "" where it has none).
Ev(name, bid, k, p, n, x) == [ev |-> name, bid |-> bid, k |-> k, p |-> p, n |-> n, x |-> x]
Log(st, ev) == [st EXCEPT !.trace = Append(@, ev)]
Raise(st, kind) == [Log(st, Ev("raise", 0, 0, 0, 0, kind)) EXCEPT !.err = kind]

\* the handler's result becomes the next state
Commit(st, name) ==
    /\ pj' = st.pj
    /\ pw' = st.pw
    /\ db_stable' = st.stable
    /\ db_baseline' = st.baseline
    /\ db_series' = st.series
    /\ db_tested' = st.tested
    /\ db_pending' = st.pending
    /\ builds' = st.builds
    /\ err' = st.err
    /\ trace' = st.trace
    /\ observed' = st.observed
    /\ reconciled' = st.reconciled
    /\ awaiting' = st.awaiting
    /\ op' = name

(* ------------------------------ the tracker ---------------------------- *)
\* series.get_patch_url_list(): <base>/patch/<id>, or a URL of another shape
PatchUrl(k, id) ==
    IF posted[k] = "ok" THEN BaseUrl(ProjOf(k)) \o <<Word("patch"), Num(id)>>
    ELSE BaseUrl(ProjOf(k)) \o <<Word("patch"), Num(id), Word("mbox")>>
GetPatchUrlList(k) == [n \in DOMAIN PatchIdsOf(k) |-> PatchUrl(k, PatchIdsOf(k)[n])]

\* interface.get_patch_by_id(patch_id)
GetPatchById(id) ==
    [name |-> Num(id), project_id |-> ProjOf(SeriesOfPatch(id)),
     date |-> <<"day", " ", "time">>]

\* series.get_patch_info_list(): the tracker's own patch info tuples
GetPatchInfoList(k) ==
    [n \in DOMAIN PatchIdsOf(k) |->
        [patch_id |-> PatchIdsOf(k)[n], patch_url |-> PatchUrl(k, PatchIdsOf(k)[n])]]

\* cpw.get_new_patchsets(): the series after the cursor, oldest first
NewSeriesOf(cpw) ==
    SeqOfSet({k \in DOMAIN posted : ProjOf(k) = cpw.proj /\ LastPatch(k) > cpw.lastpatch})
CursorAfter(cpw) ==
    LET new == Range(NewSeriesOf(cpw))
    IN IF new = {} THEN cpw.lastpatch ELSE SetMax({LastPatch(k) : k \in new})

\* cpw.get_patchsets(patches): the series the patches belong to, oldest first
GetPatchsets(ids) == SeqOfSet({SeriesOfPatch(id) : id \in ids})

(* ------------------------------ the store ------------------------------ *)
DbGetStable(st) == st.stable

DbGetExpiredPendingPatches(st, proj, age) ==
    {id \in AllPatchIds : /\ ProjOf(SeriesOfPatch(id)) = proj
                          /\ st.pending[id] # NoTime
                          /\ now - st.pending[id] >= age}

DbSetPatchsetPending(st, proj, infos) ==
    [st EXCEPT !.pending = [id \in AllPatchIds |->
        IF \E n \in DOMAIN infos : infos[n].patch_id = id THEN now ELSE @[id]]]

DbCommitSeries(st, patches) == [st EXCEPT !.series = Append(@, patches)]

DbCommitTested(st, patches) ==
    [st EXCEPT !.tested = Append(@, [patches |-> patches]),
               !.pending = [id \in AllPatchIds |->
                   IF \E n \in DOMAIN patches : patches[n].patch_id = id
                   THEN NoTime ELSE @[id]]]

\* the newest patch of the project among the committed ones, None if none
DbGetLastCheckedPatch(st, proj) ==
    LET ids == {id \in AllPatchIds :
                   /\ ProjOf(SeriesOfPatch(id)) = proj
                   /\ \/ \E n \in DOMAIN st.series : \E m \in DOMAIN st.series[n] :
                             st.series[n][m].patch_id = id
                      \/ \E n \in DOMAIN st.tested : \E m \in DOMAIN st.tested[n].patches :
                             st.tested[n].patches[m].patch_id = id}
    IN IF ids = {} THEN None ELSE SetMax(ids)

\* the newest patch of the project among the pending ones, None if none
DbGetLastPendingPatch(st, proj) ==
    LET ids == {id \in AllPatchIds :
                   ProjOf(SeriesOfPatch(id)) = proj /\ st.pending[id] # NoTime}
    IN IF ids = {} THEN None ELSE SetMax(ids)

DbUpdateBaseline(st, hash, date, res, bid) ==
    [st EXCEPT !.baseline = [commit_hash |-> hash, commit_date |-> date,
                             result |-> res, build_id |-> bid],
               !.stable = IF res = "SUCCESS" THEN hash ELSE @]

(* ---------------------------- the CI backend --------------------------- *)
CommitDate(h) == 1000 * h
\* jk.build(...): a new build with a fresh build id
\* (ref: the commit asked for, None for the base ref's tip; hash: the commit
\* built; k: the series the patch URLs are of, 0 for a baseline build)
JkBuild(st, type, ref, hash, urls, k) ==
    [st EXCEPT !.builds = Append(@, [type |-> type, ref |-> ref, hash |-> hash,
                                     urls |-> urls, k |-> k, done |-> FALSE,
                                     result |-> "NONE"])]
JkLastBuildId(st) == Len(st.builds)
\* jk.build(...) raises when the backend does not take the request: st.refuse
\* is the request of this call (the first, the second, ...) that it will not
\* take, 0 if it takes them all
JkRefuses(st) == st.refuse = 1
JkAsked(st) == [st EXCEPT !.refuse = IF @ > 1 THEN @ - 1 ELSE @]
JkIsBuildComplete(st, bid) == st.builds[bid].done
JkGetResult(st, bid) == st.builds[bid].result
JkGetBaseHash(st, bid) == st.builds[bid].hash
JkGetBaseCommitdate(st, bid) == CommitDate(st.builds[bid].hash)
JkGetPatchUrlList(st, bid) == st.builds[bid].urls

(* ------------------------------ the watcher ---------------------------- *)
\* re.match(r'(.*)/patch/(\d+)$', patch_url): a URL is modelled by its path
\* segments, and matches when the last two are "patch" and a number
UrlMatch(url) ==
    /\ Len(url) >= 3
    /\ url[Len(url) - 1] = Word("patch")
    /\ url[Len(url)].n >= 0

\* get_patch_info_from_url(interface, patch_url), for a URL that matches
GetPatchInfoFromUrl(url) ==
    LET baseurl == SubSeq(url, 1, Len(url) - 2)
        patch_id == url[Len(url)].n
        patch == GetPatchById(patch_id)
    IN [patch_id |-> patch_id, patch_name |-> patch.name, patch_url |-> url,
        baseurl |-> baseurl, project_id |-> patch.project_id,
        patch_date |-> [n \in DOMAIN patch.date |->
                           IF patch.date[n] = " " THEN "T" ELSE patch.date[n]]]

\* the loop "for patch_url in ...: patches.append(get_patch_info_from_url(...))":
\* the list of tuples, or a raise at the first malformed URL
UrlsMalformed(urls) == \E n \in DOMAIN urls : ~UrlMatch(urls[n])
ResolveUrls(urls) == [n \in DOMAIN urls |-> GetPatchInfoFromUrl(urls[n])]

\* (mutant: check_baseline records the commit it submits as the baseline)
CheckBaselineBodyRecording(st, h) ==
    IF JkRefuses(st)
    THEN Raise(Log(st, Ev("build_refused", 0, 0, 0, 0, "BASELINE")), "BuildFailed")
    ELSE LET st1 == Log(JkBuild(JkAsked(st), "BASELINE", None, h, <<>>, 0),
                        Ev("build", Len(st.builds) + 1, 0, 0, 0, "BASELINE"))
         IN [st1 EXCEPT !.pj = Append(@, <<"BASELINE", JkLastBuildId(st1), None>>),
                        !.baseline = [commit_hash |-> h, commit_date |-> CommitDate(h),
                                      result |-> "NONE", build_id |-> JkLastBuildId(st1)]]

\* check_baseline(): submit a build of the base repository and remember it
CheckBaselineBody(st, h) ==
    IF JkRefuses(st)
    THEN Raise(Log(st, Ev("build_refused", 0, 0, 0, 0, "BASELINE")), "BuildFailed")
    ELSE LET st1 == Log(JkBuild(JkAsked(st), "BASELINE", None, h, <<>>, 0),
                        Ev("build", Len(st.builds) + 1, 0, 0, 0, "BASELINE"))
         IN [st1 EXCEPT !.pj = Append(@, <<"BASELINE", JkLastBuildId(st1), None>>)]

\* (mutant: the completed entry is left in the list)
RemoveEntryKept(list, e) == list

\* self.pj.remove((pjt, bid, cpw))
RemoveEntry(list, e) == ListRemove(list, e)

\* (mutant: the tuples committed as tested carry the build they were tested by)
ApplyResultPerJob(st, e) ==
    LET pjt == e[1]
        bid == e[2]
        bres == JkGetResult(st, bid)
    IN IF pjt = "BASELINE"
       THEN Log(DbUpdateBaseline(st, JkGetBaseHash(st, bid),
                                 JkGetBaseCommitdate(st, bid), bres, bid),
                Ev("update_baseline", bid, 0, 0, 0, bres))
       ELSE IF pjt = "PATCHWORK"
       THEN LET patch_url_list == JkGetPatchUrlList(st, bid)
                patches == [n \in DOMAIN patch_url_list |->
                               [GetPatchInfoFromUrl(patch_url_list[n])
                                   EXCEPT !.patch_name = Num(bid)]]
            IN IF UrlsMalformed(patch_url_list)
               THEN Raise(st, "Malformed")
               ELSE LET st1 == Log(DbCommitTested(st, patches),
                                   Ev("commit_tested", bid, st.builds[bid].k, e[3], 0, bres))
                        ids == {patch_url_list[n][Len(patch_url_list[n])].n :
                                   n \in DOMAIN patch_url_list}
                    IN [st1 EXCEPT !.reconciled = Append(@, [bid |-> bid, result |-> bres]),
                                   !.awaiting = @ \ {SeriesOfPatch(id) : id \in ids}]
       ELSE Raise(st, "UnknownJobType")

\* what check_pending does with a completed job that did not end in ERROR
ApplyResult(st, e) ==
    LET pjt == e[1]
        bid == e[2]
        bres == JkGetResult(st, bid)
    IN IF pjt = "BASELINE"
       THEN Log(DbUpdateBaseline(st, JkGetBaseHash(st, bid),
                                 JkGetBaseCommitdate(st, bid), bres, bid),
                Ev("update_baseline", bid, 0, 0, 0, bres))
       ELSE IF pjt = "PATCHWORK"
       THEN LET patch_url_list == JkGetPatchUrlList(st, bid)
            IN IF UrlsMalformed(patch_url_list)
               THEN Raise(st, "Malformed")
               ELSE LET st1 == Log(DbCommitTested(st, ResolveUrls(patch_url_list)),
                                   Ev("commit_tested", bid, st.builds[bid].k, e[3], 0, bres))
                        ids == {patch_url_list[n][Len(patch_url_list[n])].n :
                                   n \in DOMAIN patch_url_list}
                    IN [st1 EXCEPT !.reconciled = Append(@, [bid |-> bid, result |-> bres]),
                                   !.awaiting = @ \ {SeriesOfPatch(id) : id \in ids}]
       ELSE Raise(st, "UnknownJobType")

\* (mutant: a job that ended in ERROR is reconciled like any other)
ReconcileJobAnyResult(st, e) ==
    ApplyResult(Log([st EXCEPT !.pj = RemoveEntry(@, e), !.observed = @ \cup {e[2]}],
                    Ev("remove", e[2], 0, 0, 0, JkGetResult(st, e[2]))), e)

\* (mutant: the entry is removed after the store has been written, and stays
\* when that raised)
ReconcileJobLate(st, e) ==
    LET bid == e[2]
        bres == JkGetResult(st, bid)
        st1 == IF bres = "ERROR" THEN Log(st, Ev("ignored", bid, 0, 0, 0, bres))
               ELSE ApplyResult(st, e)
    IN IF st1.err # "none" THEN st1
       ELSE Log([st1 EXCEPT !.pj = RemoveEntry(@, e), !.observed = @ \cup {bid}],
                Ev("remove", bid, 0, 0, 0, bres))

\* the body of check_pending's loop for a job the backend reports complete
ReconcileJob(st, e) ==
    LET bid == e[2]
        bres == JkGetResult(st, bid)
        st1 == Log([st EXCEPT !.pj = RemoveEntry(@, e),
                              !.observed = @ \cup {bid}],
                   Ev("remove", bid, 0, 0, 0, bres))
    IN IF bres = "ERROR" THEN Log(st1, Ev("ignored", bid, 0, 0, 0, bres))
       ELSE ApplyResult(st1, e)

RECURSIVE CheckPendingFrom(_, _)
\* check_pending's loop "for (pjt, bid, cpw) in self.pj": the list iterator reads
\* self.pj[i] for i = 0, 1, ... against the list as it is at that moment
\* (the state an iteration starts from is computed once: st ranges over {st0})
CheckPendingFrom(st0, i) ==
    LET Iteration(st) ==
            IF st.err # "none" \/ i > Len(st.pj) THEN st
            ELSE LET e == st.pj[i]
                     st1 == Log(st, Ev("is_build_complete", e[2], 0, 0, 0, ""))
                 IN IF JkIsBuildComplete(st1, e[2])
                    THEN CheckPendingFrom(ReconcileJob(st1, e), i + 1)
                    ELSE CheckPendingFrom(st1, i + 1)
    IN CHOOSE r \in {Iteration(st) : st \in {st0}} : TRUE

CheckPendingBody(st) == CheckPendingFrom(st, 1)

\* (mutant: a status that is neither 0 nor an error the code names is a drop)
FilterClassLenient(status) ==
    IF status = 0 THEN "ready"
    ELSE IF status = 127 THEN "FilterFailed"
    ELSE IF status < 0 THEN "FilterSignal"
    ELSE "dropped"

\* filter_patchsets' reading of one exit status of the filter program
FilterClass(status) ==
    IF status = 0 THEN "ready"
    ELSE IF status = 1 THEN "dropped"
    ELSE IF status = 127 THEN "FilterFailed"
    ELSE IF status < 0 THEN "FilterSignal"
    ELSE "FilterInvalid"

RECURSIVE FilterLoop(_, _, _)
\* filter_patchsets' loop over the series: one run of the filter program per
\* series, until one run's status raises
FilterLoop(list, f, acc) ==
    IF list = <<>> \/ acc.raised # "none" THEN acc
    ELSE LET k == Head(list)
             status == f[k]
             cls == FilterClass(status)
             acc1 == [acc EXCEPT !.calls = Append(@, Ev("filter", 0, k, 0, status, cls))]
         IN FilterLoop(Tail(list), f,
                IF cls = "ready" THEN [acc1 EXCEPT !.ready = Append(@, k)]
                ELSE IF cls = "dropped" THEN [acc1 EXCEPT !.dropped = Append(@, k)]
                ELSE [acc1 EXCEPT !.raised = cls])

\* filter_patchsets(series_summary_list); f[k] is the status the filter
\* program exits with for series k
FilterPatchsets(series_summary_list, f) ==
    LET empty == [ready |-> <<>>, dropped |-> <<>>, raised |-> "none", calls |-> <<>>]
    IN IF patch_filter THEN FilterLoop(series_summary_list, f, empty)
       ELSE [empty EXCEPT !.ready = @ \o series_summary_list]

RECURSIVE LogReady(_, _, _)
\* the loop logging the ready series
LogReady(st, i, list) ==
    IF list = <<>> THEN st
    ELSE LogReady(Log(st, Ev("ready", 0, Head(list), i, 0, "")), i, Tail(list))

RECURSIVE DropDroppedSkipping(_, _, _)
\* (mutant: a URL of another shape is left out, and the rest is committed)
DropDroppedSkipping(st, i, list) ==
    IF list = <<>> \/ st.err # "none" THEN st
    ELSE LET k == Head(list)
             st1 == Log(st, Ev("dropped", 0, k, i, 0, ""))
             urls == SelectSeq(GetPatchUrlList(k), UrlMatch)
         IN DropDroppedSkipping(Log(DbCommitSeries(st1, ResolveUrls(urls)),
                                    Ev("commit_series", 0, k, i, 0, "")),
                                i, Tail(list))

RECURSIVE DropDropped(_, _, _)
\* the loop over series_dropped: resolve the series' patch URLs and commit
\* them as one batch
DropDropped(st, i, list) ==
    IF list = <<>> \/ st.err # "none" THEN st
    ELSE LET k == Head(list)
             st1 == Log(st, Ev("dropped", 0, k, i, 0, ""))
             urls == GetPatchUrlList(k)
         IN DropDropped(
                IF UrlsMalformed(urls) THEN Raise(st1, "Malformed")
                ELSE Log(DbCommitSeries(st1, ResolveUrls(urls)),
                         Ev("commit_series", 0, k, i, 0, "")),
                i, Tail(list))

\* "self.pj.append((JobType.PATCHWORK, self.jk.build(...), cpw))"
SubmitBuild(st, i, k, stablecommit) ==
    IF JkRefuses(st)
    THEN Raise(Log(st, Ev("build_refused", 0, k, i, 0, "PATCHWORK")), "BuildFailed")
    ELSE LET st1 == Log(JkBuild(JkAsked(st), "PATCHWORK", stablecommit, stablecommit,
                                GetPatchUrlList(k), k),
                        Ev("build", Len(st.builds) + 1, k, i, 0, "PATCHWORK"))
         IN [st1 EXCEPT !.pj = Append(@, <<"PATCHWORK", JkLastBuildId(st1), i>>),
                        !.awaiting = @ \cup {k}]

\* (mutant: the pending mark is not written)
MarkPendingSkipped(st, i, k) == st

\* "self.db.set_patchset_pending(cpw.baseurl, cpw.project_id, ...)"
MarkPending(st, i, k) ==
    Log(DbSetPatchsetPending(st, st.pw[i].proj, GetPatchInfoList(k)),
        Ev("set_patchset_pending", 0, k, i, 0, ""))

RECURSIVE SubmitListMarkFirst(_, _, _, _)
\* (mutant: the series' patches are marked pending before the build is asked for)
SubmitListMarkFirst(st, i, list, stablecommit) ==
    IF list = <<>> \/ st.err # "none" THEN st
    ELSE SubmitListMarkFirst(SubmitBuild(MarkPending(st, i, Head(list)), i, Head(list),
                                         stablecommit),
                             i, Tail(list), stablecommit)

RECURSIVE SubmitList(_, _, _, _)
\* the loop over series_list: submit and remember a build, then mark the
\* series' patches pending; a build request that raises ends the call
SubmitList(st, i, list, stablecommit) ==
    IF list = <<>> \/ st.err # "none" THEN st
    ELSE LET st1 == SubmitBuild(st, i, Head(list), stablecommit)
         IN SubmitList(IF st1.err # "none" THEN st1 ELSE MarkPending(st1, i, Head(list)),
                       i, Tail(list), stablecommit)

\* (mutant: the list of expired series replaces the ready ones)
SeriesListExpiredOnly(st, i, ready) ==
    GetPatchsets(DbGetExpiredPendingPatches(st, st.pw[i].proj, ExpirySecs))

\* series_list: the ready series, then the series of the patches pending for
\* longer than the expiry window
SeriesList(st, i, ready) ==
    ready \o GetPatchsets(DbGetExpiredPendingPatches(st, st.pw[i].proj, ExpirySecs))

\* (mutant: the ready series are submitted before the dropped ones are committed)
HandleBatchSubmitFirst(st, i, ready, dropped, stablecommit) ==
    DropDropped(SubmitList(LogReady(st, i, ready), i, SeriesList(st, i, ready), stablecommit),
                i, dropped)

\* what check_patchwork does with a batch once the filter has split it
HandleBatch(st, i, ready, dropped, stablecommit) ==
    LET st1 == DropDropped(LogReady(st, i, ready), i, dropped)
    IN IF st1.err # "none" THEN st1
       ELSE SubmitList(st1, i, SeriesList(st1, i, ready), stablecommit)

\* (mutant: the series classified before the filter's fatal status are handled)
ProcessProjectPartial(st, i, f, stablecommit) ==
    LET cpw == st.pw[i]
        new_series == NewSeriesOf(cpw)
        st1 == Log([st EXCEPT !.pw[i].lastpatch = CursorAfter(cpw)],
                   Ev("get_new_patchsets", 0, 0, i, Len(new_series), ""))
        fr == FilterPatchsets(new_series, f)
        st2 == [st1 EXCEPT !.trace = @ \o [n \in DOMAIN fr.calls |->
                                              [fr.calls[n] EXCEPT !.p = i]]]
        done == HandleBatch(st2, i, fr.ready, fr.dropped, stablecommit)
    IN IF fr.raised # "none" /\ done.err = "none" THEN Raise(done, fr.raised)
       ELSE done

\* the body of check_patchwork's loop "for cpw in self.pw"
ProcessProject(st, i, f, stablecommit) ==
    LET cpw == st.pw[i]
        new_series == NewSeriesOf(cpw)
        st1 == Log([st EXCEPT !.pw[i].lastpatch = CursorAfter(cpw)],
                   Ev("get_new_patchsets", 0, 0, i, Len(new_series), ""))
        fr == FilterPatchsets(new_series, f)
        st2 == [st1 EXCEPT !.trace = @ \o [n \in DOMAIN fr.calls |->
                                              [fr.calls[n] EXCEPT !.p = i]]]
        \* the two lists filter_patchsets returned, noted in the trace
        st3 == [st2 EXCEPT !.trace = @ \o [n \in DOMAIN fr.ready |->
                                               Ev("in_ready", 0, fr.ready[n], i, 0, "")]
                                       \o [n \in DOMAIN fr.dropped |->
                                               Ev("in_dropped", 0, fr.dropped[n], i, 0, "")]]
    IN IF fr.raised # "none" THEN Raise(st2, fr.raised)
       ELSE HandleBatch(st3, i, fr.ready, fr.dropped, stablecommit)

RECURSIVE ProjectsFrom(_, _, _, _)
ProjectsFrom(st, i, f, stablecommit) ==
    IF st.err # "none" \/ i > Len(st.pw) THEN st
    ELSE ProjectsFrom(ProcessProject(st, i, f, stablecommit), i + 1, f, stablecommit)

\* (mutant: the baseline gate lets everything through)
NoStableNever(stablecommit) == FALSE

\* "if not stablecommit: raise"
NoStable(stablecommit) == stablecommit = None

\* check_patchwork()
CheckPatchworkBody(st, f) ==
    LET stablecommit == DbGetStable(st)
    IN IF NoStable(stablecommit) THEN Raise(st, "NoStable")
       ELSE ProjectsFrom(st, 1, f, stablecommit)

(* ------------------------------- actions ------------------------------- *)
\* The state after construction: nothing in flight, no tracker interface; the
\* store is the database file the watcher was given, new or holding the
\* stable baseline of an earlier run.
Init ==
    /\ pj = <<>>
    /\ pw = <<>>
    /\ patch_filter \in BOOLEAN
    /\ waiting = FALSE
    /\ db_stable \in {None} \cup Commits
    /\ db_baseline = IF db_stable = None THEN NoBaseline
                     ELSE [commit_hash |-> db_stable, commit_date |-> CommitDate(db_stable),
                           result |-> "SUCCESS", build_id |-> 0]
    /\ db_series = <<>>
    /\ db_tested = <<>>
    /\ db_pending = [id \in AllPatchIds |-> NoTime]
    /\ builds = <<>>
    /\ posted = <<>>
    /\ now = 0
    /\ op = "init"
    /\ err = "none"
    /\ trace = <<>>
    /\ observed = {}
    /\ reconciled = <<>>
    /\ awaiting = {}

\* the environment's steps leave the watcher and the store alone
EnvStep(name) ==
    /\ op' = "env"
    /\ err' = "none"
    /\ trace' = <<>>
    /\ UNCHANGED <<pj, pw, patch_filter, waiting, store, observed, reconciled, awaiting>>

\* a series is mailed to the tracker; the tracker gives its patches URLs of
\* the expected shape, or (for at most MaxBad series) of another shape
PostSeries ==
    /\ Len(posted) < MaxSeries
    /\ \E shape \in {"ok", "bad"} :
          /\ shape = "bad" => Cardinality({k \in DOMAIN posted : posted[k] = "bad"}) < MaxBad
          /\ posted' = Append(posted, shape)
    /\ EnvStep("post")
    /\ UNCHANGED <<builds, now>>

\* the CI backend finishes a build
FinishBuild ==
    /\ \E bid \in DOMAIN builds, res \in Results :
          /\ ~builds[bid].done
          /\ builds' = [builds EXCEPT ![bid].done = TRUE, ![bid].result = res]
    /\ EnvStep("finish")
    /\ UNCHANGED <<posted, now>>

\* time passes; the clock is read only to age pending marks, so it is left
\* alone while there are none
Tick ==
    /\ now < MaxTicks * TickSecs
    /\ \E id \in AllPatchIds : db_pending[id] # NoTime
    /\ now' = now + TickSecs
    /\ EnvStep("tick")
    /\ UNCHANGED <<builds, posted>>

\* (mutant: the last checked patch wins whenever there is one)
PyMaxFirst(a, b) == IF a = None THEN b ELSE a

\* max(a, b) of Python 2, where None is below every number
PyMax(a, b) == IF a = None THEN b ELSE IF b = None THEN a ELSE IF a >= b THEN a ELSE b

\* add_pw(baseurl, pname, lpatch), the XMLRPC interface; lpatch is the patch
\* id given, or None
AddPwBody(st, p, lpatch) ==
    IF lpatch # None
    THEN [st EXCEPT !.pw = Append(@, [proj |-> p, lastpatch |-> lpatch])]
    ELSE LET found == PyMax(DbGetLastCheckedPatch(st, p), DbGetLastPendingPatch(st, p))
         IN IF found = None THEN Raise(st, "NeverTested")
            ELSE [st EXCEPT !.pw = Append(@, [proj |-> p, lastpatch |-> found])]

\* add_pw for a project not yet tracked; the projects are configured before
\* the first build is submitted
AddPw ==
    /\ ~waiting
    /\ builds = <<>>
    /\ \E p \in Projects, lpatch \in {None, CursorStart} :
          /\ \A i \in DOMAIN pw : pw[i].proj # p
          /\ \E st \in {AddPwBody(Snapshot, p, lpatch)} : Commit(st, "add_pw")
    /\ UNCHANGED <<patch_filter, waiting, posted, now>>

CheckBaseline ==
    /\ ~waiting
    /\ Len(builds) < MaxBuilds
    /\ \E h \in Commits, r \in 0..1 :
          \E st \in {CheckBaselineBody([Snapshot EXCEPT !.refuse = r], h)} :
              Commit(st, "check_baseline")
    /\ UNCHANGED <<patch_filter, waiting, posted, now>>

\* the series the filter program may be run for
Filterable ==
    IF patch_filter /\ ~NoStable(db_stable)
    THEN {k \in DOMAIN posted : \E i \in DOMAIN pw : k \in Range(NewSeriesOf(pw[i]))}
    ELSE {}

\* (the first status that raises ends the call, so one such status per call
\* is all that can be seen)
CheckPatchwork ==
    /\ ~waiting
    /\ \E f \in [Filterable -> ExitCodes] :
          /\ Cardinality({k \in Filterable : f[k] \notin {0, 1}}) <= 1
          /\ \E r \in 0..MaxBuilds : \E st \in {CheckPatchworkBody([Snapshot EXCEPT !.refuse = r], f)} :
                /\ Len(st.builds) <= MaxBuilds
                /\ Commit(st, "check_patchwork")
    /\ UNCHANGED <<patch_filter, waiting, posted, now>>

CheckPending ==
    /\ ~waiting
    /\ \E st \in {CheckPendingBody(Snapshot)} : Commit(st, "check_pending")
    /\ UNCHANGED <<patch_filter, waiting, posted, now>>

\* wait_for_pending(): the first pass; it returns if the list is empty, and
\* sleeps otherwise
WaitForPending ==
    /\ ~waiting
    /\ \E st \in {CheckPendingBody(Snapshot)} :
          /\ Commit(st, "wait_for_pending")
          /\ waiting' = (st.err = "none" /\ st.pj # <<>>)
    /\ UNCHANGED <<patch_filter, posted, now>>

\* (mutant: the loop ends after one more pass, whatever is left)
WaitPollOnce ==
    /\ waiting
    /\ \E st \in {CheckPendingBody(Snapshot)} :
          /\ Commit(st, "wait_for_pending")
          /\ waiting' = FALSE
    /\ UNCHANGED <<patch_filter, posted, now>>

\* wait_for_pending(): a pass after a sleep
WaitPoll ==
    /\ waiting
    /\ \E st \in {CheckPendingBody(Snapshot)} :
          /\ Commit(st, "wait_for_pending")
          /\ waiting' = (st.err = "none" /\ st.pj # <<>>)
    /\ UNCHANGED <<patch_filter, posted, now>>

\* (mutant: cleanup forgets the jobs it warns about)
CleanupFromForget(st, i) ==
    [st EXCEPT !.pj = <<>>,
               !.trace = [n \in DOMAIN st.pj |->
                             Ev("warning", st.pj[n][2], 0, 0, 0, st.pj[n][1])]]

RECURSIVE CleanupFrom(_, _)
CleanupFrom(st, i) ==
    IF i > Len(st.pj) THEN st
    ELSE CleanupFrom(Log(st, Ev("warning", st.pj[i][2], 0, 0, 0, st.pj[i][1])), i + 1)

\* cleanup(): log the jobs still in flight
Cleanup ==
    /\ ~waiting
    /\ pj # <<>>
    /\ \E st \in {CleanupFrom(Snapshot, 1)} : Commit(st, "cleanup")
    /\ UNCHANGED <<patch_filter, waiting, posted, now>>

Next ==
    \/ PostSeries
    \/ FinishBuild
    \/ Tick
    \/ AddPw
    \/ CheckBaseline
    \/ CheckPatchwork
    \/ CheckPending
    \/ WaitForPending
    \/ WaitPoll
    \/ Cleanup

Spec == Init /\ [][Next]_vars

(* ---------------------- draining the in-flight list -------------------- *)
\* the jobs a run may have in flight when it starts to wait: baseline builds
\* (0) and builds of series
DrainKinds == {0} \cup SeriesIds

\* a watcher with one tracked project that has seen every series, a stable
\* baseline, and nothing submitted yet
Idle ==
    [pj |-> <<>>, pw |-> <<[proj |-> 1, lastpatch |-> LastPatch(MaxSeries)]>>,
     stable |-> 1,
     baseline |-> [commit_hash |-> 1, commit_date |-> CommitDate(1),
                   result |-> "SUCCESS", build_id |-> 0],
     series |-> <<>>, tested |-> <<>>, pending |-> [id \in AllPatchIds |-> NoTime],
     builds |-> <<>>, err |-> "none", trace |-> <<>>,
     observed |-> {}, reconciled |-> <<>>, awaiting |-> {}, refuse |-> 0]

RECURSIVE SubmitJobs(_, _)
\* the submissions of check_baseline and check_patchwork, in the order given
SubmitJobs(st, kinds) ==
    IF kinds = <<>> THEN st
    ELSE SubmitJobs(IF Head(kinds) = 0 THEN CheckBaselineBody(st, 1)
                    ELSE MarkPending(SubmitBuild(st, 1, Head(kinds), 1), 1, Head(kinds)),
                    Tail(kinds))

\* The state when the run starts to wait: up to MaxDrain jobs in flight, in
\* any order, each series submitted at most once, no build finished yet.
InitDrain ==
    /\ posted \in {sh \in [SeriesIds -> {"ok", "bad"}] :
                      Cardinality({k \in SeriesIds : sh[k] = "bad"}) <= MaxBad}
    /\ now = 0
    /\ patch_filter = FALSE
    /\ waiting = FALSE
    /\ \E n \in 1..MaxDrain : \E kinds \in [1..n -> DrainKinds] :
          /\ \A a, b \in 1..n : (a # b /\ kinds[a] # 0) => kinds[a] # kinds[b]
          /\ \E st \in {SubmitJobs(Idle, kinds)} :
                /\ pj = st.pj
                /\ pw = st.pw
                /\ db_stable = st.stable
                /\ db_baseline = st.baseline
                /\ db_series = st.series
                /\ db_tested = st.tested
                /\ db_pending = st.pending
                /\ builds = st.builds
                /\ awaiting = st.awaiting
    /\ op = "init"
    /\ err = "none"
    /\ trace = <<>>
    /\ observed = {}
    /\ reconciled = <<>>

NextDrain ==
    \/ FinishBuild
    \/ WaitForPending
    \/ WaitPoll

\* The CI backend finishes every build it was given, and wait_for_pending's
\* loop runs its next pass after every sleep.
SpecDrain == InitDrain /\ [][NextDrain]_vars /\ WF_vars(FinishBuild) /\ WF_vars(WaitPoll)

(* ------------------------------ properties ----------------------------- *)
TraceHas(name, k) == \E n \in DOMAIN trace : trace[n].ev = name /\ trace[n].k = k
PatchworkJobs == {i \in DOMAIN pj : pj[i][1] = "PATCHWORK"}
IsPending(k) == \E id \in PatchSet(k) : db_pending[id] # NoTime
AllPending(k) == \A id \in PatchSet(k) : db_pending[id] # NoTime
BatchIds(patches) == [n \in DOMAIN patches |-> patches[n].patch_id]

\* C1: no build id is in two entries of the in-flight list, and a build id
\* whose completion check_pending has observed is in no entry of it.
InFlightUnique ==
    /\ \A i, j \in DOMAIN pj : i # j => pj[i][2] # pj[j][2]
    /\ \A i \in DOMAIN pj : pj[i][2] \notin observed

\* C1 witness: check_pending has observed a job complete and removed it
\* while another job stays in flight.
InFlightUniqueWitness ==
    /\ observed # {}
    /\ Len(pj) >= 1
    /\ op = "check_pending"

\* C2: no two PATCHWORK jobs in flight are builds of the same patch URL list
\* against the same baseline commit.
NoConcurrentDuplicate ==
    \A i, j \in PatchworkJobs :
        i # j => ~(/\ builds[pj[i][2]].urls = builds[pj[j][2]].urls
                   /\ builds[pj[i][2]].ref = builds[pj[j][2]].ref)

\* C3 as stated: a series' patches are pending exactly when a PATCHWORK build
\* of the series is in flight, or was submitted and its completion (with any
\* result) has not been observed by check_pending.
PendingIffUnreconciled ==
    \A k \in SeriesIds :
        IsPending(k) <=>
            \/ \E i \in PatchworkJobs : builds[pj[i][2]].k = k
            \/ \E bid \in DOMAIN builds :
                  /\ builds[bid].type = "PATCHWORK"
                  /\ builds[bid].k = k
                  /\ bid \notin observed

\* C3 amended: a series' patches are pending (all of them) exactly when a
\* PATCHWORK build of the series was submitted and no commit_tested has been
\* made for the series since its latest submission.
PendingIffAwaiting ==
    \A k \in SeriesIds :
        /\ IsPending(k) <=> k \in awaiting
        /\ IsPending(k) <=> AllPending(k)

\* C3 witness: a PATCHWORK job ended in ERROR and has left the in-flight list,
\* and its series' patches are still pending.
PendingIffAwaitingWitness ==
    \E bid \in observed :
        /\ builds[bid].type = "PATCHWORK"
        /\ builds[bid].result = "ERROR"
        /\ AllPending(builds[bid].k)
        /\ pj = <<>>

\* C4: in one check_patchwork call, every commit_series of a project's batch
\* comes before every build request of that batch.
DropBeforeSubmit ==
    op = "check_patchwork" =>
        \A a, b \in DOMAIN trace :
            (/\ trace[a].ev = "commit_series"
             /\ trace[b].ev = "build"
             /\ trace[a].p = trace[b].p) => a < b

\* C4 witness: a batch with a dropped and a ready series, both handled.
DropBeforeSubmitWitness ==
    /\ op = "check_patchwork"
    /\ \E a, b \in DOMAIN trace :
          /\ trace[a].ev = "commit_series"
          /\ trace[b].ev = "build"
          /\ trace[a].p = trace[b].p
          /\ trace[a].k > trace[b].k

FilterErrors == {"FilterFailed", "FilterSignal", "FilterInvalid"}
BatchEvents == {"in_ready", "in_dropped", "ready", "dropped", "commit_series",
                "build", "set_patchset_pending"}

\* C5: with a filter program configured, a series whose filter run exits with
\* 0 is ready and one whose run exits with 1 is dropped (when no run of the
\* batch raises); any other status (2, 126, 127, -9) raises, and then the
\* batch has no ready or dropped list: nothing of it is logged, committed or
\* submitted.
FilterMapping ==
    op = "check_patchwork" =>
        \A n \in DOMAIN trace : trace[n].ev = "filter" =>
            LET e == trace[n]
                fatal == \E m \in DOMAIN trace :
                            /\ trace[m].ev = "filter"
                            /\ trace[m].p = e.p
                            /\ trace[m].n \notin {0, 1}
                Has(name) == \E m \in DOMAIN trace :
                                trace[m].ev = name /\ trace[m].k = e.k /\ trace[m].p = e.p
            IN /\ patch_filter
               /\ e.n \in ExitCodes
               /\ (e.n = 0 /\ ~fatal) => (Has("in_ready") /\ ~Has("in_dropped"))
               /\ (e.n = 0 /\ err = "none") => Has("build")
               /\ (e.n = 1 /\ ~fatal) => (Has("in_dropped") /\ ~Has("in_ready") /\ ~Has("build"))
               /\ (e.n = 1 /\ err = "none") => Has("commit_series")
               /\ e.n \notin {0, 1} =>
                     /\ err \in FilterErrors
                     /\ \A m \in DOMAIN trace :
                           trace[m].p = e.p => trace[m].ev \notin BatchEvents

\* C5 witness: the filter accepted one series of a batch and then exited with
\* a reserved status for the next.
FilterMappingWitness ==
    /\ op = "check_patchwork"
    /\ \E a, b \in DOMAIN trace :
          /\ a < b
          /\ trace[a].ev = "filter" /\ trace[a].n = 0
          /\ trace[b].ev = "filter" /\ trace[b].n = 126
          /\ err = "FilterInvalid"

\* C6: a check_patchwork call made while the store has no stable baseline
\* raises, and changes neither the tracker cursors, the in-flight list, the
\* CI backend's builds nor the store.
BaselineGate ==
    [][(op' = "check_patchwork" /\ db_stable = None) =>
          /\ err' = "NoStable"
          /\ UNCHANGED <<pw, pj, builds, store, awaiting>>]_vars

\* C6 witness: check_patchwork has raised for want of a baseline although a
\* tracked project had a new series.
BaselineGateWitness ==
    /\ op = "check_patchwork"
    /\ err = "NoStable"
    /\ db_stable = None
    /\ \E i \in DOMAIN pw : NewSeriesOf(pw[i]) # <<>>

PendingOps == {"check_pending", "wait_for_pending"}

\* C7: a check_pending pass removes the entry of a job that completed with
\* ERROR and calls neither update_baseline nor commit_tested for it; a pass
\* in which every completed job ended in ERROR leaves the store as it was,
\* and the patches of a PATCHWORK job that ended in ERROR keep their pending
\* mark unless the same pass commits another job of the same series as tested.
ErrorIgnored ==
    [][op' \in PendingOps =>
          /\ \A n \in DOMAIN trace' :
                (trace'[n].ev = "remove" /\ trace'[n].x = "ERROR") =>
                    LET bid == trace'[n].bid
                        k == builds[bid].k
                    IN /\ \A i \in DOMAIN pj' : pj'[i][2] # bid
                       /\ \E i \in DOMAIN pj : pj[i][2] = bid
                       /\ \A m \in DOMAIN trace' :
                             trace'[m].bid = bid =>
                                 trace'[m].ev \notin {"update_baseline", "commit_tested"}
                       /\ (/\ builds[bid].type = "PATCHWORK"
                           /\ \A m \in DOMAIN trace' :
                                 ~(trace'[m].ev = "commit_tested" /\ trace'[m].k = k))
                          => \A id \in PatchSet(k) : db_pending'[id] = db_pending[id]
          /\ (\A n \in DOMAIN trace' : trace'[n].ev = "remove" => trace'[n].x = "ERROR")
                => UNCHANGED store]_vars

\* C7 witness: a pass has removed a PATCHWORK job that ended in ERROR, and its
\* patches are pending.
ErrorIgnoredWitness ==
    /\ op = "check_pending"
    /\ \E n \in DOMAIN trace :
          /\ trace[n].ev = "remove"
          /\ trace[n].x = "ERROR"
          /\ builds[trace[n].bid].type = "PATCHWORK"
          /\ AllPending(builds[trace[n].bid].k)

\* the time of a series' pending mark
MarkTime(k) == db_pending[PatchIdsOf(k)[1]]
Tracked(k) == \E i \in DOMAIN pw : pw[i].proj = ProjOf(k)

NewSeries == UNION {Range(NewSeriesOf(pw[i])) : i \in DOMAIN pw}
AcceptedIn(tr) ==
    IF patch_filter
    THEN {k \in NewSeries : \E n \in DOMAIN tr : tr[n].ev = "filter" /\ tr[n].k = k /\ tr[n].n = 0}
    ELSE NewSeries
NoneExpired ==
    \A k \in SeriesIds : (IsPending(k) /\ Tracked(k)) => now < MarkTime(k) + 12 * 3600
TestedBatchesOf(k) ==
    {n \in DOMAIN db_tested : BatchIds(db_tested[n].patches) = PatchIdsOf(k)}

\* what one check_patchwork call that returns, with no expired pending
\* patches, does to the store and the in-flight list
CycleEffect ==
    (op' = "check_patchwork" /\ err' = "none" /\ NoneExpired) =>
        LET R == AcceptedIn(trace')
            D == NewSeries \ R
            newDrops == (Len(db_series) + 1)..Len(db_series')
            newJobs == (Len(pj) + 1)..Len(pj')
        IN /\ Len(db_series') = Len(db_series) + Cardinality(D)
           /\ SubSeq(db_series', 1, Len(db_series)) = db_series
           /\ \A k \in D :
                 Cardinality({n \in newDrops : BatchIds(db_series'[n]) = PatchIdsOf(k)}) = 1
           /\ Len(pj') = Len(pj) + Cardinality(R)
           /\ SubSeq(pj', 1, Len(pj)) = pj
           /\ \A k \in R :
                 Cardinality({n \in newJobs :
                                 /\ pj'[n][1] = "PATCHWORK"
                                 /\ builds'[pj'[n][2]].urls = GetPatchUrlList(k)}) = 1
           /\ \A id \in AllPatchIds :
                 db_pending'[id] = IF \E k \in R : id \in PatchSet(k) THEN now
                                   ELSE db_pending[id]
           /\ db_tested' = db_tested

\* what holds when wait_for_pending has returned: nothing is in flight, and a
\* series (with patch URLs of the tracker's shape) whose one build ended in
\* SUCCESS has one tested batch
DrainedEffect ==
    (op = "wait_for_pending" /\ ~waiting /\ err = "none") =>
        /\ pj = <<>>
        /\ \A k \in DOMAIN posted :
              (/\ posted[k] = "ok"
               /\ \E bid \in DOMAIN builds :
                     /\ builds[bid].k = k
                     /\ builds[bid].result = "SUCCESS"
                     /\ \A b2 \in DOMAIN builds : builds[b2].k = k => b2 = bid)
              => Cardinality(TestedBatchesOf(k)) = 1

\* C9: a check_patchwork call with no expired pending patches commits one
\* batch per dropped series, with that series' patches, adds one PATCHWORK
\* entry per ready series and none for a dropped one, and marks exactly the
\* ready series' patches pending; once the jobs have ended in SUCCESS and
\* wait_for_pending has returned, each such series has one tested batch and
\* nothing is in flight.
EndToEnd == [][CycleEffect]_vars /\ []DrainedEffect

\* C9 witness: one series of a batch was dropped and committed, the other was
\* submitted, its build ended in SUCCESS, and wait_for_pending has returned.
EndToEndWitness ==
    /\ op = "wait_for_pending" /\ ~waiting /\ err = "none"
    /\ pj = <<>>
    /\ Len(db_series) = 1
    /\ Len(db_tested) = 1
    /\ \E k \in DOMAIN posted :
          /\ BatchIds(db_series[1]) # PatchIdsOf(k)
          /\ Cardinality(TestedBatchesOf(k)) = 1
          /\ \E bid \in DOMAIN builds : builds[bid].k = k /\ builds[bid].result = "SUCCESS"

\* C10: every tested batch in the store carries the result of the job it was
\* written for.
TestedCarriesResult ==
    \A n \in DOMAIN db_tested :
        /\ "result" \in DOMAIN db_tested[n]
        /\ db_tested[n].result = reconciled[n].result

(* ------------------- registration against an older store --------------- *)
\* what an earlier run left in the store about a series
StoreShapes == {"none", "dropped", "tested", "pending"}
StoredBatch(k) == ResolveUrls(GetPatchUrlList(k))
BatchesOf(shape, what) ==
    LET ks == SeqOfSet({k \in SeriesIds : shape[k] = what})
    IN [n \in DOMAIN ks |-> StoredBatch(ks[n])]

\* The state after construction on the database file of an earlier run: the
\* tracker holds the series, and the store has each of them as never seen,
\* dropped, tested or pending.
InitResumed ==
    /\ pj = <<>>
    /\ pw = <<>>
    /\ patch_filter \in BOOLEAN
    /\ waiting = FALSE
    /\ db_stable \in {None} \cup Commits
    /\ db_baseline = IF db_stable = None THEN NoBaseline
                     ELSE [commit_hash |-> db_stable, commit_date |-> CommitDate(db_stable),
                           result |-> "SUCCESS", build_id |-> 0]
    /\ posted = [k \in SeriesIds |-> "ok"]
    /\ \E shape \in [SeriesIds -> StoreShapes] :
          /\ db_series = BatchesOf(shape, "dropped")
          /\ db_tested = [n \in DOMAIN BatchesOf(shape, "tested") |->
                             [patches |-> BatchesOf(shape, "tested")[n]]]
          /\ db_pending = [id \in AllPatchIds |->
                              IF shape[SeriesOfPatch(id)] = "pending" THEN 0 ELSE NoTime]
          /\ awaiting = {k \in SeriesIds : shape[k] = "pending"}
    /\ builds = <<>>
    /\ now = 0
    /\ op = "init"
    /\ err = "none"
    /\ trace = <<>>
    /\ observed = {}
    /\ reconciled = <<>>

\* add_pw for a project not yet tracked: one of the tracker's projects, or a
\* project the store has never seen a patch of
AddPwResumed ==
    /\ \E p \in 1..(NumProj + 1), lpatch \in {None, CursorStart} :
          /\ \A i \in DOMAIN pw : pw[i].proj # p
          /\ \E st \in {AddPwBody(Log(Snapshot, Ev("add_pw", 0, 0, p, lpatch, "")), p, lpatch)} :
                Commit(st, "add_pw")
    /\ UNCHANGED <<patch_filter, waiting, posted, now>>

NextResumed == AddPwResumed

SpecResumed == InitResumed /\ [][NextResumed]_vars

\* the patches of a project the store has as checked (dropped or tested), and
\* those it has as pending
CheckedIds(p) ==
    {id \in AllPatchIds :
        /\ ProjOf(SeriesOfPatch(id)) = p
        /\ \/ \E n \in DOMAIN db_series : id \in Range(BatchIds(db_series[n]))
           \/ \E n \in DOMAIN db_tested : id \in Range(BatchIds(db_tested[n].patches))}
PendingIds(p) ==
    {id \in AllPatchIds : ProjOf(SeriesOfPatch(id)) = p /\ db_pending[id] # NoTime}

\* C11: add_pw without a starting cursor raises and leaves the list of tracked
\* projects as it was when the store has neither a checked nor a pending patch
\* of the project; otherwise it appends the project with its cursor at the
\* larger of the last checked and the last pending patch.  The store is not
\* written either way.
AddPwCursor ==
    [][(op' = "add_pw" /\ trace'[1].n = None) =>
          LET p == trace'[1].p
              known == CheckedIds(p) \cup PendingIds(p)
          IN /\ UNCHANGED store
             /\ known = {} => (err' = "NeverTested" /\ pw' = pw)
             /\ known # {} =>
                   /\ err' = "none"
                   /\ pw' = Append(pw, [proj |-> p, lastpatch |-> SetMax(known)])
                   /\ \A id \in CheckedIds(p) : pw'[Len(pw')].lastpatch >= id
                   /\ \A id \in PendingIds(p) : pw'[Len(pw')].lastpatch >= id]_vars

\* C11 witness: a project was registered without a starting cursor while the
\* store had both a checked and a newer pending patch of it, and a project
\* the store knows nothing of was refused.
AddPwCursorWitness ==
    /\ op = "add_pw"
    /\ err = "NeverTested"
    /\ trace[1].n = None
    /\ Len(pw) = 1
    /\ CheckedIds(pw[1].proj) # {}
    /\ PendingIds(pw[1].proj) # {}
    /\ pw[1].lastpatch = SetMax(PendingIds(pw[1].proj))
    /\ pw[1].lastpatch > SetMax(CheckedIds(pw[1].proj))

\* the store's tested commits: the patch info tuples handed to commit_tested
TestedCommits == UNION {Range(db_tested[n].patches) : n \in DOMAIN db_tested}
TestedCommitsOf(tested, k) ==
    {t \in UNION {Range(tested[n].patches) : n \in DOMAIN tested} : t.patch_id \in PatchSet(k)}

WaitDrains ==
    /\ []((op = "wait_for_pending" /\ ~waiting /\ err = "none") => pj = <<>>)
    /\ (waiting ~> ~waiting)

\* C13 witness: wait_for_pending has returned after sleeping with three jobs in
\* flight; its last pass found one entry left and removed it.
WaitDrainsWitness ==
    /\ op = "wait_for_pending" /\ ~waiting /\ err = "none"
    /\ pj = <<>>
    /\ observed = {1, 2, 3}
    /\ \A bid \in DOMAIN builds : builds[bid].k = 0 \/ builds[bid].result = "SUCCESS"
    /\ Cardinality({n \in DOMAIN trace : trace[n].ev = "is_build_complete"}) = 1
    /\ Cardinality({n \in DOMAIN trace : trace[n].ev = "remove"}) = 1

\* C14: when the filter program's status for a series of a project's batch
\* is fatal, check_patchwork raises, and of the series of that batch (the
\* ones the filter had passed or rejected before included) none is built,
\* none is marked pending and none is committed as dropped; no entry for the
\* project is added to the in-flight list.
FilterAbortsBatch ==
    [][op' = "check_patchwork" =>
          \A n \in DOMAIN trace' :
              (trace'[n].ev = "filter" /\ trace'[n].n \notin {0, 1}) =>
                  LET i == trace'[n].p
                      batch == Range(NewSeriesOf(pw[i]))
                  IN /\ err' \in FilterErrors
                     /\ trace'[n].k \in batch
                     /\ \A k \in batch :
                           /\ \A bid \in (Len(builds) + 1)..Len(builds') : builds'[bid].k # k
                           /\ \A id \in PatchSet(k) : db_pending'[id] = db_pending[id]
                           /\ \A m \in (Len(db_series) + 1)..Len(db_series') :
                                 BatchIds(db_series'[m]) # PatchIdsOf(k)
                     /\ \A m \in (Len(pj) + 1)..Len(pj') : pj'[m][3] # i
                     /\ \A m \in DOMAIN pj' : m <= Len(pj) => pj'[m] = pj[m]]_vars

\* C14 witness: the filter rejected the first series of a batch and failed
\* (exit 127) on the second; nothing is committed, pending or in flight.
FilterAbortsBatchWitness ==
    /\ op = "check_patchwork"
    /\ err = "FilterFailed"
    /\ \E a, b \in DOMAIN trace :
          /\ a < b
          /\ trace[a].ev = "filter" /\ trace[a].n = 1
          /\ trace[b].ev = "filter" /\ trace[b].n = 127
          /\ trace[a].p = trace[b].p
    /\ db_series = <<>>
    /\ builds = <<>>
    /\ \A id \in AllPatchIds : db_pending[id] = NoTime

\* C15: a check_pending pass that returns asks the CI backend
\* is_build_complete exactly once for every entry that is in the in-flight
\* list when the pass starts.
AsksEveryEntry ==
    [][(op' = "check_pending" /\ err' = "none") =>
          \A i \in DOMAIN pj :
              Cardinality({n \in DOMAIN trace' :
                              /\ trace'[n].ev = "is_build_complete"
                              /\ trace'[n].bid = pj[i][2]}) = 1]_vars

\* how often an entry is in a list
EntryCount(list, e) == Cardinality({i \in DOMAIN list : list[i] = e})

\* C16: an entry leaves the in-flight list only in a check_pending pass that
\* asked is_build_complete for its build and was told it is complete; an
\* entry whose build is not complete stays; every other operation
\* (check_patchwork, check_baseline, cleanup, add_pw) keeps the entries it
\* found, unaltered and in place, and a pass keeps the order of those it leaves.
NoJobLost ==
    [][/\ \A i \in DOMAIN pj :
             EntryCount(pj', pj[i]) < EntryCount(pj, pj[i]) =>
                 /\ op' \in PendingOps
                 /\ builds[pj[i][2]].done
                 /\ \E n, m \in DOMAIN trace' :
                       /\ n < m
                       /\ trace'[n].ev = "is_build_complete" /\ trace'[n].bid = pj[i][2]
                       /\ trace'[m].ev = "remove" /\ trace'[m].bid = pj[i][2]
       /\ \A i \in DOMAIN pj : ~builds[pj[i][2]].done => pj[i] \in Range(pj')
       /\ op' \notin PendingOps => SubSeq(pj', 1, Len(pj)) = pj
       /\ op' \in PendingOps =>
             /\ Range(pj') \subseteq Range(pj)
             /\ \A a, b \in DOMAIN pj' : a < b =>
                   \E c, d \in DOMAIN pj : c < d /\ pj[c] = pj'[a] /\ pj[d] = pj'[b]]_vars

\* C16 witness: a pass asked about two entries, left the first, whose build
\* is still running, and removed the second, complete one.
NoJobLostWitness ==
    /\ op = "check_pending"
    /\ Len(pj) = 1
    /\ ~builds[pj[1][2]].done
    /\ \E n, m \in DOMAIN trace :
          /\ n < m
          /\ trace[n].ev = "is_build_complete" /\ trace[n].bid = pj[1][2]
          /\ trace[m].ev = "remove" /\ trace[m].bid # pj[1][2]

StoreWrites == {"update_baseline", "commit_tested"}

\* C17: check_pending removes a job's entry at the first pass that sees the
\* job complete, before the store is written for the job; the store is
\* written for a job in that pass only, once, by update_baseline for a
\* BASELINE job and by commit_tested for a PATCHWORK job, and not at all for a
\* job that ended in ERROR; an entry added to the list is of a new build.
RemovedBeforeWrite ==
    [][/\ observed \subseteq observed'
       /\ \A m \in DOMAIN pj' : pj'[m] \notin Range(pj) => pj'[m][2] \notin DOMAIN builds
       /\ \A n \in DOMAIN trace' :
             LET bid == trace'[n].bid
             IN /\ trace'[n].ev = "remove" =>
                      /\ bid \notin observed
                      /\ bid \in observed'
                      /\ \A i \in DOMAIN pj' : pj'[i][2] # bid
                      /\ \A m \in DOMAIN trace' : (trace'[m].ev = "remove" /\ trace'[m].bid = bid) => m = n
                /\ trace'[n].ev \in StoreWrites =>
                      /\ op' \in PendingOps
                      /\ \E m \in 1..(n - 1) : trace'[m].ev = "remove" /\ trace'[m].bid = bid
                      /\ \A m \in DOMAIN trace' :
                            (trace'[m].ev \in StoreWrites /\ trace'[m].bid = bid) => m = n
                      /\ builds[bid].result # "ERROR"
                      /\ trace'[n].ev = IF builds[bid].type = "BASELINE" THEN "update_baseline"
                                        ELSE "commit_tested"]_vars

\* C17 witness: a pass has removed a PATCHWORK job that ended in FAILURE and
\* then committed its patches as tested, while a complete BASELINE job is
\* still in the list.
RemovedBeforeWriteWitness ==
    /\ op = "check_pending"
    /\ Len(pj) = 1
    /\ pj[1][1] = "BASELINE"
    /\ builds[pj[1][2]].done
    /\ \E a, b \in DOMAIN trace :
          /\ a < b
          /\ trace[a].ev = "remove" /\ trace[b].ev = "commit_tested"
          /\ trace[a].bid = trace[b].bid /\ trace[b].x = "FAILURE"

\* C18: in a check_patchwork call, every set_patchset_pending for a series
\* comes right after the build request for that series, whose entry
\* (PATCHWORK, build id, project) is in the in-flight list; and when the build
\* request for a series raises, the call ends there: no pending mark is
\* written for the series and no entry is added for it.
SubmitBeforePending ==
    [][op' = "check_patchwork" =>
          \A n \in DOMAIN trace' :
              LET k == trace'[n].k
                  i == trace'[n].p
              IN /\ trace'[n].ev = "set_patchset_pending" =>
                       /\ n > 1
                       /\ trace'[n - 1].ev = "build"
                       /\ trace'[n - 1].k = k
                       /\ trace'[n - 1].bid \notin DOMAIN builds
                       /\ \E m \in DOMAIN pj' : pj'[m] = <<"PATCHWORK", trace'[n - 1].bid, i>>
                       /\ \A id \in PatchSet(k) : db_pending'[id] = now
                 /\ trace'[n].ev = "build_refused" =>
                       /\ err' = "BuildFailed"
                       /\ \A m \in DOMAIN trace' : m > n => trace'[m].ev = "raise"
                       /\ \A m \in DOMAIN trace' :
                             trace'[m].k = k => trace'[m].ev \notin {"build", "set_patchset_pending"}
                       /\ \A id \in PatchSet(k) : db_pending'[id] = db_pending[id]
                       /\ \A m \in DOMAIN pj' : m > Len(pj) => builds'[pj'[m][2]].k # k]_vars

\* C18 witness: the first series of a batch was submitted and marked pending,
\* and the build request for the second raised: the second is neither
\* pending nor in flight.
SubmitBeforePendingWitness ==
    /\ op = "check_patchwork"
    /\ err = "BuildFailed"
    /\ Len(pj) = 1
    /\ \E n \in DOMAIN trace : trace[n].ev = "set_patchset_pending" /\ trace[n].k = 1
    /\ \E n \in DOMAIN trace : trace[n].ev = "build_refused" /\ trace[n].k = 2
    /\ AllPending(1)
    /\ ~IsPending(2)

\* the Baseline record update_baseline writes for a build
BaselineOf(bid) ==
    [commit_hash |-> builds[bid].hash, commit_date |-> CommitDate(builds[bid].hash),
     result |-> builds[bid].result, build_id |-> bid]

\* C19: the Baseline record changes only in a check_pending pass that calls
\* update_baseline; the pass calls it only for a complete BASELINE job it has
\* just removed, whose result is SUCCESS or FAILURE, and for every such job,
\* and the record is then that of the last such build: its commit hash,
\* commit date, result and build id.
BaselineWrittenByReconciler ==
    [][LET updates == {n \in DOMAIN trace' : trace'[n].ev = "update_baseline"}
       IN /\ db_baseline' # db_baseline => (op' \in PendingOps /\ updates # {})
          /\ op' \notin PendingOps => updates = {}
          /\ \A n \in updates :
                LET bid == trace'[n].bid
                IN /\ \E i \in DOMAIN pj : pj[i] = <<"BASELINE", bid, None>>
                   /\ builds[bid].type = "BASELINE"
                   /\ builds[bid].done
                   /\ builds[bid].result \in {"SUCCESS", "FAILURE"}
                   /\ trace'[n].x = builds[bid].result
          /\ \A n \in DOMAIN trace' :
                (/\ op' \in PendingOps
                 /\ trace'[n].ev = "remove"
                 /\ builds[trace'[n].bid].type = "BASELINE"
                 /\ trace'[n].x # "ERROR")
                => \E m \in updates : m > n /\ trace'[m].bid = trace'[n].bid
          /\ updates # {} => db_baseline' = BaselineOf(trace'[SetMax(updates)].bid)]_vars

\* C19 witness: a BASELINE job that ended in FAILURE has been written to the
\* Baseline record, after a PATCHWORK job had completed and left it alone.
BaselineWrittenByReconcilerWitness ==
    /\ op = "check_pending"
    /\ db_baseline.result = "FAILURE"
    /\ db_baseline.build_id = 2
    /\ db_baseline = BaselineOf(2)
    /\ 1 \in observed
    /\ builds[1].type = "PATCHWORK"
    /\ builds[1].result = "SUCCESS"

\* the builds a pass has removed from the in-flight list
RemovedIn(tr) == {tr[n].bid : n \in {m \in DOMAIN tr : tr[m].ev = "remove"}}

\* what check_patchwork does at a dropped series with a patch URL of another
\* shape than <base>/patch/<digits>
MalformedInDrop ==
    op' = "check_patchwork" =>
        \A n \in DOMAIN trace' :
            (trace'[n].ev = "dropped" /\ UrlsMalformed(GetPatchUrlList(trace'[n].k))) =>
                LET k == trace'[n].k
                    i == trace'[n].p
                IN /\ err' = "Malformed"
                   /\ n = Len(trace') - 1
                   /\ \A m \in DOMAIN trace' :
                         trace'[m].p = i => trace'[m].ev \notin {"build", "set_patchset_pending"}
                   /\ \A m \in DOMAIN trace' : trace'[m].k = k => trace'[m].ev # "commit_series"
                   /\ \A m \in (Len(db_series) + 1)..Len(db_series') :
                         Range(BatchIds(db_series'[m])) \cap PatchSet(k) = {}
                   /\ Len(db_series') - Len(db_series) =
                         Cardinality({m \in DOMAIN trace' : trace'[m].ev = "commit_series"})
                   /\ SubSeq(pj', 1, Len(pj)) = pj
                   /\ \A m \in (Len(pj) + 1)..Len(pj') : pj'[m][3] # i
                   /\ \A bid \in (Len(builds) + 1)..Len(builds') :
                         ProjOf(builds'[bid].k) # pw[i].proj
                   /\ \A id \in AllPatchIds :
                         ProjOf(SeriesOfPatch(id)) = pw[i].proj => db_pending'[id] = db_pending[id]
                   /\ UNCHANGED <<db_tested, db_baseline, db_stable>>

\* what a check_pending pass does at a complete PATCHWORK job, not ended in
\* ERROR, with such a URL in its list
MalformedInReconcile ==
    op' \in PendingOps =>
        /\ \A n \in DOMAIN trace' :
              (/\ trace'[n].ev = "remove"
               /\ trace'[n].x # "ERROR"
               /\ builds[trace'[n].bid].type = "PATCHWORK"
               /\ UrlsMalformed(builds[trace'[n].bid].urls)) =>
                  LET bid == trace'[n].bid
                  IN /\ err' = "Malformed"
                     /\ n = Len(trace') - 1
                     /\ \A m \in DOMAIN trace' : trace'[m].bid = bid => trace'[m].ev # "commit_tested"
                     /\ \A m \in DOMAIN reconciled' : reconciled'[m].bid # bid
                     /\ \E j \in DOMAIN pj : pj[j][2] = bid
                     /\ \A j \in DOMAIN pj' : pj'[j][2] # bid
          /\ err' = "Malformed" =>
                /\ \A j \in DOMAIN pj : pj[j][2] \notin RemovedIn(trace') => pj[j] \in Range(pj')
                /\ Len(pj') = Len(pj) - Cardinality(RemovedIn(trace'))
                /\ Len(db_tested') - Len(db_tested) =
                      Cardinality({m \in DOMAIN trace' : trace'[m].ev = "commit_tested"})
                /\ db_series' = db_series

\* C20: a patch URL that is not <base>/patch/<digits> makes the operation
\* that resolves it raise on the spot.  In check_patchwork the dropped series
\* it belongs to gets no commit_series (no batch with any of its patches), and
\* the project's batch no build and no pending mark; in check_pending the
\* completed job gets no commit_tested, its entry is gone from the in-flight
\* list, and the entries the pass has not removed are all still in it.
MalformedUrlFatal == [][MalformedInDrop /\ MalformedInReconcile]_vars

\* C20 witness: a pass has removed a complete PATCHWORK job whose URLs are of
\* another shape and raised; its patches are still pending, nothing was
\* committed as tested, and the other job is still in flight.
MalformedUrlFatalWitness ==
    /\ op = "check_pending"
    /\ err = "Malformed"
    /\ Len(pj) = 1
    /\ db_tested = <<>>
    /\ \E bid \in observed :
          /\ builds[bid].type = "PATCHWORK"
          /\ builds[bid].result = "SUCCESS"
          /\ UrlsMalformed(builds[bid].urls)
          /\ AllPending(builds[bid].k)

====
